---------------------------- MODULE Spec2Model ----------------------------
(***************************************************************************)
(* Concept disambiguation engine of metadata_pipeline_torch_only.py:       *)
(* the ontology dictionary, the warm-up loop that fills the embedding      *)
(* cache, and disambiguate_entity.                                         *)
(*                                                                         *)
(* Python dicts are modelled as sequences of <<key, value>> items in       *)
(* insertion order, because max() over a dict depends on that order.       *)
(* Cosine similarities are kept exact (see cosine_similarity); float       *)
(* rounding is not modelled.                                               *)
(***************************************************************************)
EXTENDS Integers, Sequences, FiniteSets, TLC

VARIABLES
    ontology_display,     \* the key: value list of the ontology dict display
    ontology_terms,       \* dict term -> (code, system): items <<term, code, system>>
    ontology_embeddings,  \* dict term -> embedding: items <<term, vector>>
    provider,             \* the embedding provider: text -> outcome, fixed on first use
    pc,                   \* "warmup" (lines 84-94) or "serving" (calls of disambiguate_entity)
    i,                    \* position of the warm-up loop in ontology_terms.keys()
    run,                  \* how many times the module body has been executed
    warmCalls,            \* term -> number of get_embedding calls made by warm-up
    warmed,               \* ontology_embeddings as the last finished warm-up left it
    prevWarmed,           \* ontology_embeddings as the warm-up before that left it
    query,                \* <<term, context>> of the last disambiguate_entity call
    result,               \* the triple it returned
    similarities,         \* its local dict term -> similarity: items <<term, sim>>
    log,                  \* the lines it printed
    lastAnswer,           \* <<query, matched term>> of the last call of any run
    repeat                \* "same" or "differs": the last call repeated the query of the
                          \* call before it and matched the same, or another, term

engineVars ==
    <<ontology_display, ontology_terms, ontology_embeddings, provider, pc, i, run,
      warmCalls, warmed, prevWarmed, query, result, similarities, log, lastAnswer, repeat>>

\* deploy.py: main and the working directory it runs in.
VARIABLES
    dpc,                  \* the step main is at, or "done"
    exit_code,            \* <<exit status>> of the db_connector.py subprocess, <<>> before
    root_files,           \* which of the files to copy exist in the working directory
    docs,                 \* the docs directory: whether it exists, and its files
    docs0,                \* the docs directory as main found it
    steps,                \* the step functions main has called, in order
    success               \* what main returned ("True", "False"), None while it runs

deployVars == <<dpc, exit_code, root_files, docs, docs0, steps, success>>

\* db_connector.py: run_all_queries and the file it writes.
VARIABLES
    dbpc,                 \* the step run_all_queries is at, or "done"
    conn,                 \* the connection: "unset", "open", "closed", or None
    qi,                   \* position of the loop in queries
    results,              \* the dict results
    executed,             \* the query names handed to execute_query, in order
    failed,               \* the query names for which execute_query returned None
    data_file,            \* dashboard_data.json: whether it exists, and its content
    data_file0            \* dashboard_data.json as run_all_queries found it

dbVars == <<dbpc, conn, qi, results, executed, failed, data_file, data_file0>>

vars == <<engineVars, deployVars, dbVars>>

\* What the engine's steps leave alone.
EngineFrame == UNCHANGED <<ontology_display, deployVars, dbVars>>

---------------------------------------------------------------------------
(* Bounds *)

\* Largest number of entries of the ontology dictionary.
MaxOntology == 2

\* Largest number of executions of the module body (warm-up runs).
MaxRuns == 2

---------------------------------------------------------------------------
(* Values *)

\* Python's None: a value different from every text and every vector.
None == "<None>"

\* Entries of the ontology dictionary literal (a subset of its seven lines).
OntologyLiteral ==
    { <<"Hypertension", "38341003", "SNOMED CT">>,
      <<"Common Cold", "82272006", "SNOMED CT">>,
      <<"Cold Temperature", "C0009264", "UMLS">> }

Terms == { e[1] : e \in OntologyLiteral }

\* An embedding: a vector <<x, y>>, or one holding a NaN component.
Vec(x, y) == [x |-> x, y |-> y, nan |-> FALSE]
NaNVec == [x |-> 0, y |-> 0, nan |-> TRUE]

Vectors == { Vec(0, 0), Vec(1, 0), Vec(2, 0), Vec(1, 1), NaNVec }

\* No embedding: what get_embedding returns after an exception.
NoEmbedding == [none |-> TRUE]

\* The calls made of disambiguate_entity: each term of the ontology with no
\* context, a term outside it with a context, and a term that is not a string.
Queries ==
    { <<e[1], "">> : e \in { ontology_terms[n] : n \in 1..Len(ontology_terms) } }
    \cup { <<"cold", "Patient exposed to cold weather conditions">> }
    \cup { <<None, "Patient presented with fever and runny nose">> }

NoQuery == <<>>
NoResult == <<None, None, None>>

---------------------------------------------------------------------------
(* Dicts as item sequences *)

Keys(d) == { d[n][1] : n \in 1..Len(d) }

Index(d, k) == CHOOSE n \in 1..Len(d) : d[n][1] = k

Get(d, k) == d[Index(d, k)][2]

\* d[k] = v: a new key goes last, an existing key keeps its position.
DictSet(d, k, v) ==
    IF k \in Keys(d)
    THEN [d EXCEPT ![Index(d, k)] = <<k, v>>]
    ELSE Append(d, <<k, v>>)

\* The dict a literal with the given entries builds.
RECURSIVE DictLiteral(_)
DictLiteral(entries) ==
    IF entries = <<>> THEN <<>>
    ELSE LET d == DictLiteral(SubSeq(entries, 1, Len(entries) - 1))
             e == entries[Len(entries)]
         IN IF e[1] \in Keys(d)
            THEN [d EXCEPT ![Index(d, e[1])] = e]
            ELSE Append(d, e)

\* An entry a dict display could add for a term the literal already holds.
ConflictingEntry == <<"Hypertension", "C0020538", "UMLS">>

\* Two entries of the display share their term.
DuplicateTerms(display) ==
    \E a, b \in 1..Len(display) : a # b /\ display[a][1] = display[b][1]

\* Dict displays of at most MaxOntology entries, in every order: those of
\* the literal's entries with and without a conflicting one.
Displays ==
    UNION { [1..n -> OntologyLiteral \cup { ConflictingEntry }] : n \in 0..MaxOntology }

DistinctDisplays ==
    { q \in UNION { [1..n -> OntologyLiteral] : n \in 0..MaxOntology } :
        ~DuplicateTerms(q) }

\* Ontologies: every ordering of at most MaxOntology distinct literal entries.
Ontologies == { DictLiteral(s) : s \in DistinctDisplays }

---------------------------------------------------------------------------
(* get_embedding *)

\* What the provider can answer for a text it has not seen: a vector, or a
\* failure; a text that is not a string always fails in the tokenizer.
PossibleOutcomes(text) ==
    IF text = None THEN { NoEmbedding } ELSE Vectors \cup { NoEmbedding }

\* get_embedding(text) returns e: the provider is deterministic, so a text seen
\* before gets the outcome it got before.
get_embedding(text, e) ==
    /\ e \in (IF text \in DOMAIN provider THEN { provider[text] } ELSE PossibleOutcomes(text))
    /\ provider' = IF text \in DOMAIN provider THEN provider ELSE provider @@ (text :> e)

---------------------------------------------------------------------------
(* cosine_similarity and the ranking loop *)

Dot(a, b) == a.x * b.x + a.y * b.y

Sign(n) == IF n > 0 THEN 1 ELSE IF n < 0 THEN -1 ELSE 0

\* sklearn's check_array rejects None and NaN input with a ValueError.
Raises(a, b) ==
    \/ a = NoEmbedding
    \/ b = NoEmbedding
    \/ a.nan
    \/ b.nan

\* cosine_similarity(a, b)[0][0] for finite vectors, kept exact as the fraction
\* <<n, d>> = sgn(c) * c^2 of the cosine c, which orders as c does. A zero
\* vector is normalised to itself, so its similarity with anything is 0.
cosine_similarity(a, b) ==
    LET na == Dot(a, a)
        nb == Dot(b, b)
        ab == Dot(a, b)
    IN IF na = 0 \/ nb = 0 THEN <<0, 1>> ELSE <<Sign(ab) * ab * ab, na * nb>>

SimLess(s, t) == s[1] * t[2] < t[1] * s[2]
SimEq(s, t) == s[1] * t[2] = t[1] * s[2]
IsOne(s) == s[1] = s[2]

\* The loop over ontology_embeddings.items(): a pair that raises is skipped.
RECURSIVE Rank(_, _)
Rank(candidate, cache) ==
    IF cache = <<>> THEN <<>>
    ELSE LET front == Rank(candidate, SubSeq(cache, 1, Len(cache) - 1))
             kv == cache[Len(cache)]
         IN IF Raises(candidate, kv[2]) THEN front
            ELSE DictSet(front, kv[1], cosine_similarity(candidate, kv[2]))

\* The lines the loop prints, one for each pair that raised.
RECURSIVE RankLog(_, _)
RankLog(candidate, cache) ==
    IF cache = <<>> THEN <<>>
    ELSE LET front == RankLog(candidate, SubSeq(cache, 1, Len(cache) - 1))
             kv == cache[Len(cache)]
         IN IF Raises(candidate, kv[2])
            THEN Append(front, "Error computing similarity for " \o kv[1])
            ELSE front

\* Positions of the first and of the last item holding the largest value.
FirstMaxIdx(sims) ==
    CHOOSE n \in 1..Len(sims) :
        /\ \A m \in 1..Len(sims) : ~SimLess(sims[n][2], sims[m][2])
        /\ \A m \in 1..(n - 1) : SimLess(sims[m][2], sims[n][2])

LastMaxIdx(sims) ==
    CHOOSE n \in 1..Len(sims) :
        /\ \A m \in 1..Len(sims) : ~SimLess(sims[n][2], sims[m][2])
        /\ \A m \in (n + 1)..Len(sims) : SimLess(sims[m][2], sims[n][2])

\* A plausible bug: a later key replaces the best one on an equal value (>=).
PyMaxLast(sims) == sims[LastMaxIdx(sims)][1]

\* A plausible bug: min() in place of max().
PyMin(sims) ==
    sims[CHOOSE n \in 1..Len(sims) :
            /\ \A m \in 1..Len(sims) : ~SimLess(sims[m][2], sims[n][2])
            /\ \A m \in 1..(n - 1) : SimLess(sims[n][2], sims[m][2])][1]

\* A plausible bug: the keys are walked in an order that changes from one
\* execution to the next (a set of strings under hash randomisation).
PyMaxHashOrder(sims) ==
    IF run % 2 = 1 THEN sims[FirstMaxIdx(sims)][1] ELSE sims[LastMaxIdx(sims)][1]

\* max(similarities, key=similarities.get): the first key, in the dict's
\* order, whose value no other key's value exceeds. sims is not empty.
RECURSIVE PyMax(_)
PyMax(sims) ==
    IF Len(sims) = 1 THEN sims[1][1]
    ELSE LET front == SubSeq(sims, 1, Len(sims) - 1)
             best == PyMax(front)
             last == sims[Len(sims)]
         IN IF SimLess(Get(front, best), last[2]) THEN last[1] ELSE best

---------------------------------------------------------------------------
(* disambiguate_entity *)

\* term + " " + context if context else term
candidate_text(term, context) ==
    IF context # "" THEN term \o " " \o context ELSE term

\* The concatenation raises TypeError when term is not a string.
ConcatRaises(term, context) == context # "" /\ term = None

\* A plausible bug: the emptiness of the cache is not checked.
CacheEmptyUnchecked == FALSE

\* not ontology_embeddings
CacheEmpty == ontology_embeddings = <<>>

\* A plausible bug: the candidate embedding is not checked for None.
EmbeddingFailedUnchecked(e) == FALSE

\* candidate_embedding is None
EmbeddingFailed(e) == e = NoEmbedding

\* ontology_terms[best_match] raises KeyError for a key the dict lacks.
LookupRaises(best_match) == best_match \notin Keys(ontology_terms)

\* A plausible bug: the code and the system are read from another entry.
ReturnFirstEntry(best_match) ==
    <<best_match, ontology_terms[1][2], ontology_terms[1][3]>>

\* best_match, ontology_terms[best_match][0], ontology_terms[best_match][1]
Return(best_match) ==
    LET entry == ontology_terms[Index(ontology_terms, best_match)]
    IN <<best_match, entry[2], entry[3]>>

\* The body of disambiguate_entity(term, context): what it returns, prints and
\* asks of the provider.
Call(term, context) ==
    /\ pc = "serving"
    /\ query' = <<term, context>>
    /\ IF CacheEmpty
       THEN /\ log' = <<"Error: No ontology embeddings available.">>
            /\ result' = NoResult
            /\ similarities' = <<>>
            /\ UNCHANGED provider
       ELSE IF ConcatRaises(term, context)
       THEN /\ log' = <<"Error in disambiguate_entity">>
            /\ result' = NoResult
            /\ similarities' = <<>>
            /\ UNCHANGED provider
       ELSE \E e \in PossibleOutcomes(candidate_text(term, context)) :
            /\ get_embedding(candidate_text(term, context), e)
            /\ IF EmbeddingFailed(e)
               THEN /\ log' = <<"Error generating embedding for text">>
                    /\ result' = NoResult
                    /\ similarities' = <<>>
               ELSE LET sims == Rank(e, ontology_embeddings)
                        printed == RankLog(e, ontology_embeddings)
                    IN /\ similarities' = sims
                       /\ IF sims = <<>>
                          THEN /\ log' = Append(printed, "Error: No similarities computed.")
                               /\ result' = NoResult
                          ELSE IF LookupRaises(PyMax(sims))
                          THEN /\ log' = Append(printed, "Error in disambiguate_entity")
                               /\ result' = NoResult
                          ELSE /\ log' = printed
                               /\ result' = Return(PyMax(sims))
    /\ lastAnswer' = <<query', result'[1]>>
    /\ repeat' = IF lastAnswer = <<>> \/ lastAnswer[1] # query' THEN "first"
                 ELSE IF lastAnswer[2] = result'[1] THEN "same" ELSE "differs"
    /\ UNCHANGED <<ontology_terms, pc, i, run, warmCalls, warmed, prevWarmed>>
    /\ EngineFrame

\* A plausible bug: the call memoises the candidate's embedding in the cache.
disambiguate_entity_memo(term, context) ==
    /\ Call(term, context)
    /\ LET text == candidate_text(term, context)
       IN ontology_embeddings' =
            IF text \in DOMAIN provider' /\ provider'[text] # NoEmbedding
            THEN DictSet(ontology_embeddings, text, provider'[text])
            ELSE ontology_embeddings

\* A plausible bug: the call drops from the cache the entries whose comparison
\* with the candidate raised.
disambiguate_entity_evict(term, context) ==
    /\ Call(term, context)
    /\ ontology_embeddings' =
         IF result' # NoResult
         THEN SelectSeq(ontology_embeddings, LAMBDA kv : kv[1] \in Keys(similarities'))
         ELSE ontology_embeddings

\* disambiguate_entity(term, context): it writes neither dict.
disambiguate_entity(term, context) ==
    /\ Call(term, context)
    /\ UNCHANGED ontology_embeddings

---------------------------------------------------------------------------
(* Warm-up: the module-level loop *)

\* A plausible bug: the first embedding failure ends the loop.
WarmUpStepAbort ==
    /\ pc = "warmup"
    /\ i <= Len(ontology_terms)
    /\ LET term == ontology_terms[i][1]
       IN /\ \E e \in PossibleOutcomes(term) :
               /\ get_embedding(term, e)
               /\ IF e # NoEmbedding
                  THEN /\ ontology_embeddings' = DictSet(ontology_embeddings, term, e)
                       /\ log' = <<"Processing " \o term>>
                       /\ i' = i + 1
                  ELSE /\ UNCHANGED ontology_embeddings
                       /\ log' = <<"Processing " \o term>>
                       /\ i' = Len(ontology_terms) + 1
          /\ warmCalls' = [warmCalls EXCEPT ![term] = @ + 1]
    /\ UNCHANGED <<ontology_terms, pc, run, warmed, prevWarmed, query, result,
                   similarities, lastAnswer, repeat>>
    /\ EngineFrame

\* One iteration of `for i, term in enumerate(ontology_terms.keys())`.
WarmUpStep ==
    /\ pc = "warmup"
    /\ i <= Len(ontology_terms)
    /\ LET term == ontology_terms[i][1]
       IN /\ \E e \in PossibleOutcomes(term) :
               /\ get_embedding(term, e)
               /\ IF e # NoEmbedding
                  THEN /\ ontology_embeddings' = DictSet(ontology_embeddings, term, e)
                       /\ log' = <<"Processing " \o term>>
                  ELSE /\ UNCHANGED ontology_embeddings
                       /\ log' = <<"Processing " \o term,
                                   "Error generating embedding for text",
                                   "Warning: Failed to generate embedding for " \o term>>
          /\ warmCalls' = [warmCalls EXCEPT ![term] = @ + 1]
    /\ i' = i + 1
    /\ UNCHANGED <<ontology_terms, pc, run, warmed, prevWarmed, query, result,
                   similarities, lastAnswer, repeat>>
    /\ EngineFrame

\* The loop is exhausted: the summary line is printed and calls are served.
WarmUpEnd ==
    /\ pc = "warmup"
    /\ i > Len(ontology_terms)
    /\ pc' = "serving"
    /\ log' = <<"Generated embeddings for ontology terms.">>
    /\ warmed' = ontology_embeddings
    /\ prevWarmed' = warmed
    /\ UNCHANGED <<ontology_terms, ontology_embeddings, provider, i, run, warmCalls,
                   query, result, similarities, lastAnswer, repeat>>
    /\ EngineFrame

\* The module body is executed again (the script is run again, or the module
\* reloaded), with the same ontology and provider: the cache starts empty.
Rerun ==
    /\ pc = "serving"
    /\ run < MaxRuns
    /\ run' = run + 1
    /\ pc' = "warmup"
    /\ i' = 1
    /\ ontology_embeddings' = <<>>
    /\ log' = <<"Generating embeddings for ontology terms...">>
    /\ query' = NoQuery
    /\ result' = NoResult
    /\ similarities' = <<>>
    /\ repeat' = "first"
    /\ UNCHANGED <<ontology_terms, provider, warmCalls, warmed, prevWarmed, lastAnswer>>
    /\ EngineFrame

---------------------------------------------------------------------------
(* deploy.py *)

\* A directory that does not exist, and one that holds the given files.
NoDir == [exists |-> FALSE, files |-> {}]
Dir(files) == [exists |-> TRUE, files |-> files]

\* The subprocess has not run yet.
NotRun == <<>>

\* files_to_copy
files_to_copy == {"index.html", "dashboard.css", "dashboard_data.json", "README.md"}

\* Exit statuses of the subprocess: 0, or an error.
ExitCodes == {0, 1}

\* A file of docs: its name and where its content comes from.
File(name, origin) == <<name, origin>>

\* A docs directory left by an earlier deployment.
OldDocs == Dir({ File("index.html", "old"), File("dashboard_data.json", "old") })

\* main is called in a working directory holding some of the files, with or
\* without a docs directory.
DeployStart(files, dir) ==
    /\ dpc = "run_db_connector"
    /\ exit_code = NotRun
    /\ root_files = files
    /\ docs = dir
    /\ docs0 = dir
    /\ steps = <<>>
    /\ success = None

DeployFrame == UNCHANGED <<engineVars, dbVars>>

\* A plausible bug: main goes on whatever run_db_connector returns.
run_db_connector_unchecked ==
    /\ dpc = "run_db_connector"
    /\ \E code \in ExitCodes, written \in BOOLEAN :
         /\ exit_code' = <<code>>
         /\ root_files' = IF code = 0 /\ written
                          THEN root_files \cup {"dashboard_data.json"}
                          ELSE root_files
    /\ dpc' = "create_docs_directory"
    /\ steps' = Append(steps, "run_db_connector")
    /\ UNCHANGED <<docs, docs0, success>>
    /\ DeployFrame

\* Step 1 of main: run_db_connector() runs db_connector.py with check=True and
\* returns False on CalledProcessError; main then returns False. A run that
\* exits 0 may or may not have written dashboard_data.json.
run_db_connector ==
    /\ dpc = "run_db_connector"
    /\ \E code \in ExitCodes, written \in BOOLEAN :
         /\ exit_code' = <<code>>
         /\ root_files' = IF code = 0 /\ written
                          THEN root_files \cup {"dashboard_data.json"}
                          ELSE root_files
         /\ IF code = 0
            THEN dpc' = "create_docs_directory" /\ UNCHANGED success
            ELSE dpc' = "done" /\ success' = "False"
    /\ steps' = Append(steps, "run_db_connector")
    /\ UNCHANGED <<docs, docs0>>
    /\ DeployFrame

\* Step 2: an existing docs is removed with its content, and docs is made.
create_docs_directory ==
    /\ dpc = "create_docs_directory"
    /\ docs' = Dir({})
    /\ dpc' = "copy_files_to_docs"
    /\ steps' = Append(steps, "create_docs_directory")
    /\ UNCHANGED <<exit_code, root_files, docs0, success>>
    /\ DeployFrame

\* Step 3: the files that exist are copied; without index.html a redirect
\* page is written in its place.
copy_files_to_docs ==
    /\ dpc = "copy_files_to_docs"
    /\ docs' = Dir(docs.files
                   \cup { File(f, "copy") : f \in files_to_copy \cap root_files }
                   \cup (IF "index.html" \notin root_files
                         THEN { File("index.html", "redirect") }
                         ELSE {}))
    /\ dpc' = "create_github_pages_config"
    /\ steps' = Append(steps, "copy_files_to_docs")
    /\ UNCHANGED <<exit_code, root_files, docs0, success>>
    /\ DeployFrame

\* Step 4: static.json and .nojekyll are written, and main returns True.
create_github_pages_config ==
    /\ dpc = "create_github_pages_config"
    /\ docs' = Dir(docs.files
                   \cup { File("static.json", "config"), File(".nojekyll", "config") })
    /\ dpc' = "done"
    /\ success' = "True"
    /\ steps' = Append(steps, "create_github_pages_config")
    /\ UNCHANGED <<exit_code, root_files, docs0>>
    /\ DeployFrame

---------------------------------------------------------------------------
(* db_connector.py *)

\* How many of the queries the model runs.
MaxQueries == 3

\* The keys of queries, in the order of the dict display.
AllQueryNames ==
    <<"kpi_total_patients", "kpi_active_trials", "kpi_safety_incidents",
      "kpi_drug_portfolio", "enrollment_trends", "enrollment_by_phase",
      "safety_timeline", "recent_trials", "recent_incidents", "demographics">>

QueryNames == SubSeq(AllQueryNames, 1, MaxQueries)

\* What execute_query returns: None when the query raised, else a DataFrame,
\* given here by its records.
Failure == [failed |-> TRUE, records |-> <<>>]
DataFrame(records) == [failed |-> FALSE, records |-> records]
QueryOutcomes == { Failure, DataFrame(<<>>), DataFrame(<<"record">>) }

\* dashboard_data.json: absent, left by an earlier run, or holding a dict.
NoFile == [exists |-> FALSE, data |-> <<>>]
StaleFile == [exists |-> TRUE, data |-> << <<"stale", <<>>>> >>]
Json(data) == [exists |-> TRUE, data |-> data]

\* run_all_queries is called with the given dashboard_data.json on disk.
DbStart(file) ==
    /\ dbpc = "connect"
    /\ conn = "unset"
    /\ qi = 1
    /\ results = <<>>
    /\ executed = <<>>
    /\ failed = {}
    /\ data_file = file
    /\ data_file0 = file

DbFrame == UNCHANGED <<engineVars, deployVars>>

\* conn = connect_to_db(); without a connection run_all_queries returns.
connect_to_db ==
    /\ dbpc = "connect"
    /\ \E connected \in BOOLEAN :
         IF connected
         THEN conn' = "open" /\ dbpc' = "queries"
         ELSE conn' = None /\ dbpc' = "done"
    /\ UNCHANGED <<qi, results, executed, failed, data_file, data_file0>>
    /\ DbFrame

\* A plausible bug: the loop ends at the first query that fails.
execute_query_break ==
    /\ dbpc = "queries"
    /\ \E df \in QueryOutcomes :
         LET name == QueryNames[qi] IN
         /\ executed' = Append(executed, name)
         /\ IF df.failed
            THEN /\ results' = results
                 /\ failed' = failed \cup {name}
                 /\ dbpc' = "write"
            ELSE /\ results' = DictSet(results, name, df.records)
                 /\ failed' = failed
                 /\ dbpc' = IF qi = Len(QueryNames) THEN "write" ELSE "queries"
    /\ qi' = qi + 1
    /\ UNCHANGED <<conn, data_file, data_file0>>
    /\ DbFrame

\* One turn of the loop over queries: execute_query, and the entry of
\* results it gives, the records or [] when it returned None.
execute_query ==
    /\ dbpc = "queries"
    /\ \E df \in QueryOutcomes :
         LET name == QueryNames[qi] IN
         /\ executed' = Append(executed, name)
         /\ IF df.failed
            THEN /\ results' = DictSet(results, name, <<>>)
                 /\ failed' = failed \cup {name}
            ELSE /\ results' = DictSet(results, name, df.records)
                 /\ failed' = failed
    /\ qi' = qi + 1
    /\ dbpc' = IF qi = Len(QueryNames) THEN "write" ELSE "queries"
    /\ UNCHANGED <<conn, data_file, data_file0>>
    /\ DbFrame

\* json.dump(results, f) into dashboard_data.json.
save_results ==
    /\ dbpc = "write"
    /\ data_file' = Json(results)
    /\ dbpc' = "close"
    /\ UNCHANGED <<conn, qi, results, executed, failed, data_file0>>
    /\ DbFrame

\* conn.close(), and run_all_queries returns.
close ==
    /\ dbpc = "close"
    /\ conn' = "closed"
    /\ dbpc' = "done"
    /\ UNCHANGED <<qi, results, executed, failed, data_file, data_file0>>
    /\ DbFrame

---------------------------------------------------------------------------
(* Specification *)

\* The module body up to the warm-up loop, for a given dict display.
Start(display) ==
    /\ ontology_display = display
    /\ ontology_terms = DictLiteral(display)
    /\ ontology_embeddings = <<>>
    /\ provider = <<>>
    /\ pc = "warmup"
    /\ i = 1
    /\ run = 1
    /\ warmCalls = [t \in Terms |-> 0]
    /\ warmed = <<>>
    /\ prevWarmed = <<>>
    /\ query = NoQuery
    /\ result = NoResult
    /\ similarities = <<>>
    /\ log = <<"Generating embeddings for ontology terms...">>
    /\ lastAnswer = <<>>
    /\ repeat = "first"

Init ==
    /\ \E display \in DistinctDisplays : Start(display)
    /\ DeployStart({}, NoDir)
    /\ DbStart(NoFile)

\* The same with displays that repeat a term.
InitLoad ==
    /\ \E display \in Displays : Start(display)
    /\ DeployStart({}, NoDir)
    /\ DbStart(NoFile)

Disambiguate == \E q \in Queries : disambiguate_entity(q[1], q[2])

Next ==
    \/ WarmUpStep
    \/ WarmUpEnd
    \/ Disambiguate
    \/ Rerun

Spec == Init /\ [][Next]_vars

SpecLoad == InitLoad /\ [][Next]_vars

\* deploy.py run on its own, the engine at rest.
InitDeploy ==
    /\ \E files \in SUBSET files_to_copy, dir \in {NoDir, Dir({}), OldDocs} :
         DeployStart(files, dir)
    /\ Start(<<>>)
    /\ DbStart(NoFile)

NextDeploy ==
    \/ run_db_connector
    \/ create_docs_directory
    \/ copy_files_to_docs
    \/ create_github_pages_config

SpecDeploy == InitDeploy /\ [][NextDeploy]_vars

\* db_connector.py run on its own.
InitDb ==
    /\ \E file \in {NoFile, StaleFile} : DbStart(file)
    /\ Start(<<>>)
    /\ DeployStart({}, NoDir)

NextDb ==
    \/ connect_to_db
    \/ execute_query
    \/ save_results
    \/ close

SpecDb == InitDb /\ [][NextDb]_vars

---------------------------------------------------------------------------
(* Properties *)

\* A call of disambiguate_entity has returned in this run.
Served == pc = "serving" /\ query # NoQuery

\* The embedding the provider gave the candidate text of the last call.
Candidate == provider[candidate_text(query[1], query[2])]

\* The last call asked for a cached term with an empty context.
SelfQuery == Served /\ query[2] = "" /\ query[1] \in Keys(ontology_embeddings)

\* Vectors of the same direction: identical or parallel.
Parallel(u, v) == ~Raises(u, v) /\ IsOne(cosine_similarity(u, v))

\* The cached vector of t is finite and not zero.
WellFormed(t) ==
    LET v == Get(ontology_embeddings, t)
    IN ~v.nan /\ Dot(v, v) # 0

FirstOfItsDirection(t) ==
    LET v == Get(ontology_embeddings, t)
    IN /\ WellFormed(t)
       /\ \A n \in 1..(Index(ontology_embeddings, t) - 1) :
            ~Parallel(ontology_embeddings[n][2], v)

\* The first cached term whose vector has the direction of t's vector.
FirstParallel(t) ==
    LET v == Get(ontology_embeddings, t)
        n == CHOOSE n \in 1..Len(ontology_embeddings) :
                /\ Parallel(ontology_embeddings[n][2], v)
                /\ \A m \in 1..(n - 1) : ~Parallel(ontology_embeddings[m][2], v)
    IN ontology_embeddings[n][1]

C2_EmptyCacheFails ==
    (Served /\ ontology_embeddings = <<>>) =>
        /\ result = NoResult
        /\ log = <<"Error: No ontology embeddings available.">>
        /\ similarities = <<>>

\* C2 witness: the ontology has terms, none was embedded, and a call for one
\* of them has returned.
C2_Witness ==
    /\ Served
    /\ ontology_embeddings = <<>>
    /\ ontology_terms # <<>>
    /\ query[1] \in Keys(ontology_terms)
    /\ result = NoResult

\* The provider gave no embedding for the candidate text of the last call.
CandidateUnavailable ==
    /\ Served
    /\ ontology_embeddings # <<>>
    /\ ~ConcatRaises(query[1], query[2])
    /\ Candidate = NoEmbedding

\* C3: with a cache that is not empty, a call whose candidate text the provider
\* cannot embed returns no term, code or system, and does so before ranking:
\* nothing is compared and only the embedding error is printed.
C3_EmbeddingUnavailable ==
    CandidateUnavailable =>
        /\ result = NoResult
        /\ similarities = <<>>
        /\ log = <<"Error generating embedding for text">>

\* C3 witness: the provider embedded a term at warm-up and failed for the
\* candidate text of a call.
C3_Witness ==
    /\ CandidateUnavailable
    /\ query[1] # None
    /\ result = NoResult

\* The cached terms whose vector was compared with the candidate's.
Compared ==
    { k \in Keys(ontology_embeddings) : ~Raises(Candidate, Get(ontology_embeddings, k)) }

Score(k) == cosine_similarity(Candidate, Get(ontology_embeddings, k))

\* C4: the matched term is a compared cached term, its similarity is the one
\* computed for it, and no compared cached term has a higher similarity.
C4_BestIsMaximum ==
    (Served /\ result # NoResult) =>
        /\ result[1] \in Compared
        /\ Get(similarities, result[1]) = Score(result[1])
        /\ \A k \in Compared : ~SimLess(Score(result[1]), Score(k))

\* C4 witness: the matched term beat a compared term cached before it.
C4_Witness ==
    /\ Served
    /\ result # NoResult
    /\ \E k \in Compared :
         /\ Index(ontology_embeddings, k) < Index(ontology_embeddings, result[1])
         /\ SimLess(Score(k), Score(result[1]))

\* C5: a call that repeats the query of the call before it, in this execution
\* or the one before, matches the same term.
C5_SameChoice == repeat # "differs"

\* C5 witness: a repeated query matched the same term again, in a second
\* execution, with another cached term tied at the largest similarity.
C5_Witness ==
    /\ Served
    /\ run > 1
    /\ repeat = "same"
    /\ result # NoResult
    /\ \E k \in Compared : k # result[1] /\ SimEq(Score(k), Score(result[1]))

\* C6: a call returns either no term, no code and no system, or a term of the
\* cache together with the code and system the ontology holds for that term.
C6_AllOrNothing ==
    Served =>
        \/ result = NoResult
        \/ /\ result[1] \in Keys(ontology_embeddings)
           /\ \E n \in 1..Len(ontology_terms) :
                ontology_terms[n] = <<result[1], result[2], result[3]>>

\* C6 witness: a complete result for a term that is not the first entry of an
\* ontology of several entries.
C6_Witness ==
    /\ Served
    /\ result # NoResult
    /\ Len(ontology_terms) > 1
    /\ result[1] # ontology_terms[1][1]

\* C7, as stated: a second warm-up leaves the cache the first one left, and
\* warm-up never passes to the provider a term that a warm-up has cached.
C7_EmbedsOnce ==
    /\ (pc = "serving" /\ run > 1) => warmed = prevWarmed
    /\ \A t \in Keys(warmed) : warmCalls[t] <= 1

\* C8: when warm-up ends, the cache holds exactly the ontology terms the
\* provider embedded, each with its vector; a failure elsewhere omits no
\* other term.
C8_FailureIsolated ==
    pc = "serving" =>
        \A n \in 1..Len(ontology_terms) :
            LET t == ontology_terms[n][1]
            IN /\ t \in DOMAIN provider
               /\ (provider[t] # NoEmbedding) <=> (t \in Keys(ontology_embeddings))
               /\ t \in Keys(ontology_embeddings) =>
                    Get(ontology_embeddings, t) = provider[t]

\* C8 witness: the first term of the ontology failed and a later one is cached.
C8_Witness ==
    /\ pc = "serving"
    /\ Len(ontology_terms) > 1
    /\ provider[ontology_terms[1][1]] = NoEmbedding
    /\ ontology_terms[2][1] \in Keys(ontology_embeddings)

\* C9: every key of the cache is a term of the ontology.
C9_NoOrphans == Keys(ontology_embeddings) \subseteq Keys(ontology_terms)

\* C9 witness: a call for a term outside the ontology was embedded and matched
\* against a cache that is not empty.
C9_Witness ==
    /\ Served
    /\ query[1] \notin Keys(ontology_terms)
    /\ result # NoResult
    /\ ontology_embeddings # <<>>

\* C10: a step taken while calls are served (a call of disambiguate_entity,
\* failed or not) changes neither the ontology nor the cache.
C10_CallsWriteNothing ==
    [][(pc = "serving" /\ pc' = "serving") =>
         UNCHANGED <<ontology_terms, ontology_embeddings>>]_vars

\* C10 witness: after a call whose comparison with one cached vector raised
\* and which matched another term, the cache is as warm-up left it.
C10_Witness ==
    /\ Served
    /\ result # NoResult
    /\ Compared # Keys(ontology_embeddings)
    /\ ontology_embeddings = warmed

\* The ontology store is in use: warm-up runs or calls are served.
StoreInUse == pc \in {"warmup", "serving"}

\* C11: a dict display in which two entries share a term is rejected: no
\* ontology store comes into use, and no entry is replaced by another.
C11_DuplicateRejected ==
    DuplicateTerms(ontology_display) =>
        /\ ~StoreInUse
        /\ \A n \in 1..Len(ontology_display) :
             \E m \in 1..Len(ontology_terms) : ontology_terms[m] = ontology_display[n]

\* Why a call failed, told by the last line it printed.
FailureCause(printed) ==
    IF printed = <<>> THEN "none"
    ELSE LET line == printed[Len(printed)]
         IN IF line = "Error: No ontology embeddings available." THEN "CacheEmpty"
            ELSE IF line = "Error generating embedding for text" THEN "EmbeddingUnavailable"
            ELSE IF line = "Error: No similarities computed." THEN "NoMatchFound"
            ELSE "other"

\* The last call failed for one of the three causes.
FailedTyped ==
    /\ Served
    /\ result = NoResult
    /\ FailureCause(log) \in {"CacheEmpty", "EmbeddingUnavailable", "NoMatchFound"}

\* C12: the caller can tell the three failures apart by the returned value: a
\* call that fails for another cause than the call before it returns another
\* value.
C12_FailuresDistinct ==
    [][(FailedTyped /\ FailedTyped' /\ FailureCause(log) # FailureCause(log'))
         => result' # result]_vars

\* A finite vector of norm zero.
ZeroNorm(v) == v # NoEmbedding /\ ~v.nan /\ Dot(v, v) = 0

\* The last call embedded its candidate text and went on to the ranking.
Ranked ==
    /\ Served
    /\ ontology_embeddings # <<>>
    /\ ~ConcatRaises(query[1], query[2])
    /\ Candidate # NoEmbedding

\* The pair of the candidate and the cached vector of k cannot be compared.
PairFails(k) ==
    LET v == Get(ontology_embeddings, k)
    IN Raises(Candidate, v) \/ ZeroNorm(Candidate) \/ ZeroNorm(v)

\* C13: in the ranking a pair with a vector of norm zero is a comparison
\* failure: its term gets no similarity and is not the match, and when every
\* pair fails the call returns the no-match failure.
C13_ZeroNormSkipped ==
    Ranked =>
        /\ \A k \in Keys(ontology_embeddings) :
             PairFails(k) => (k \notin Keys(similarities) /\ result[1] # k)
        /\ (\A k \in Keys(ontology_embeddings) : PairFails(k)) =>
             (result = NoResult /\ FailureCause(log) = "NoMatchFound")

\* The terms of the literal in lexicographic (code point) order.
LexOrder == <<"Cold Temperature", "Common Cold", "Hypertension">>

LexLess(a, b) ==
    \E m, n \in 1..Len(LexOrder) : m < n /\ LexOrder[m] = a /\ LexOrder[n] = b

\* C14: among the cached terms tied at the largest similarity the match is the
\* lexicographically smallest, whatever the order of the ontology and cache.
C14_LexicographicTieBreak ==
    (Served /\ result # NoResult) =>
        \A k \in Compared :
            SimEq(Score(k), Score(result[1])) => ~LexLess(k, result[1])


---------------------------------------------------------------------------
(* C15: main runs data generation, docs re-creation, file copy and config
   writing in this order; when the db connector subprocess exits with an
   error main returns failure and the docs directory it found is neither
   deleted nor modified; docs is deleted and re-created only after data
   generation has succeeded. *)

MainOrder ==
    <<"run_db_connector", "create_docs_directory",
      "copy_files_to_docs", "create_github_pages_config">>

ConnectorFailed == exit_code # NotRun /\ exit_code[1] # 0

C15_DocsKeptOnFailure ==
    /\ Len(steps) <= Len(MainOrder)
    /\ steps = SubSeq(MainOrder, 1, Len(steps))
    /\ ConnectorFailed =>
         /\ dpc = "done"
         /\ success = "False"
         /\ docs = docs0
         /\ steps = <<"run_db_connector">>
    /\ (docs # docs0 \/ Len(steps) >= 2) => exit_code = <<0>>
    /\ success = "True" => steps = MainOrder

\* The connector failed where an earlier deployment had left a docs directory.
C15_Witness ==
    /\ ConnectorFailed
    /\ dpc = "done"
    /\ docs0 = OldDocs
    /\ docs = OldDocs

---------------------------------------------------------------------------
(* C16: once the connection succeeds, dashboard_data.json holds exactly one
   entry per defined query name; a query that fails contributes an empty
   list and the later queries are still executed; the connection is closed
   after the file is written. When the connection fails no query is
   executed and no file is written. *)

Written == data_file # data_file0

EntryNames(data) == [n \in 1..Len(data) |-> data[n][1]]

C16_OneEntryPerQuery ==
    /\ conn = None =>
         /\ dbpc = "done"
         /\ executed = <<>>
         /\ ~Written
    /\ Written =>
         /\ conn \in {"open", "closed"}
         /\ executed = QueryNames
         /\ EntryNames(data_file.data) = QueryNames
         /\ \A name \in failed : Get(data_file.data, name) = <<>>
    /\ ~(conn = "open" /\ dbpc = "done")
    /\ conn = "closed" => Written
    /\ (conn = "open" /\ dbpc \in {"close", "done"}) => Written

\* The first query failed, a later one gave records, the file is written and
\* the connection closed.
C16_Witness ==
    /\ dbpc = "done"
    /\ conn = "closed"
    /\ QueryNames[1] \in failed
    /\ \E n \in 2..Len(QueryNames) : Get(data_file.data, QueryNames[n]) # <<>>
    /\ data_file0 = StaleFile
=============================================================================
